---------------------------- MODULE Spec2Model ----------------------------
(***************************************************************************)
(* DNS-over-QUIC client of dnscore (doquic.go): queryQUIC, sendQueryQUIC   *)
(* and recvResponseQUIC as a state machine.                                *)
(*                                                                         *)
(* One query call is a sequence of steps, one per statement of the code    *)
(* that touches the network, the caller's message or the result.  The      *)
(* libraries the code calls (net, quic-go, miekg/dns) are the environment: *)
(* each call into them is a step whose outcome is drawn from the outcomes  *)
(* the library can produce.  The DNS wire format is modelled on bytes, so  *)
(* that what the parser is handed and what the server sent can differ.     *)
(***************************************************************************)
EXTENDS Integers, Sequences, FiniteSets, TLC

(***************************************************************************)
(* Bounds of the model.                                                    *)
(***************************************************************************)
\* Latest instant a context deadline may name; the clock runs one tick past it.
MaxDeadline == 1

\* The nonzero message ID a caller may hand in (any 16-bit value; one suffices).
CallerId == 4660

(***************************************************************************)
(* Program constants.                                                      *)
(***************************************************************************)
\* buffer := make([]byte, 1024)
BufCap == 1024

Calls == {1, 2}
NoDeadline == -1
Nil == 0

(***************************************************************************)
(* Bytes and big-endian integers.                                          *)
(***************************************************************************)
Zeros(n) == [i \in 1..n |-> 0]

Take(s, n) == SubSeq(s, 1, IF n < Len(s) THEN n ELSE Len(s))

Min(a, b) == IF a < b THEN a ELSE b

PackUint16(v) == << (v \div 256) % 256, v % 256 >>

PackUint32(v) ==
    << (v \div 16777216) % 256, (v \div 65536) % 256, (v \div 256) % 256, v % 256 >>

\* Offsets are Go offsets: off = 0 is the first byte, msg[off] is s[off + 1].
U16At(msg, off) == msg[off + 1] * 256 + msg[off + 2]

U32At(msg, off) ==
    ((msg[off + 1] * 256 + msg[off + 2]) * 256 + msg[off + 3]) * 256 + msg[off + 4]

\* The one element of a one-element set.
Only(S) == CHOOSE x \in S : TRUE

(***************************************************************************)
(* dns.Msg and its wire format (miekg/dns Pack and Unpack, without name    *)
(* compression on the packing side, which Pack leaves off by default, and  *)
(* with RDATA kept as opaque bytes).  A message is                         *)
(*   [Id, Bits, Question, Answer, Ns, Extra]                               *)
(* Bits are the 16 flag bits of the header; a name is a sequence of        *)
(* labels, a label a sequence of bytes.                                    *)
(***************************************************************************)
RECURSIVE PackDomainName(_)
PackDomainName(name) ==
    IF name = << >> THEN << 0 >>
    ELSE << Len(Head(name)) >> \o Head(name) \o PackDomainName(Tail(name))

\* A label is 1..63 bytes long; Pack rejects the message otherwise.
NameOk(name) == \A i \in 1..Len(name) : Len(name[i]) \in 1..63

PackQuestion(q) == PackDomainName(q.Name) \o PackUint16(q.Qtype) \o PackUint16(q.Qclass)

PackRR(rr) ==
    PackDomainName(rr.Name) \o PackUint16(rr.Rrtype) \o PackUint16(rr.Class)
        \o PackUint32(rr.Ttl) \o PackUint16(Len(rr.Rdata)) \o rr.Rdata

RECURSIVE PackQuestions(_)
PackQuestions(s) ==
    IF s = << >> THEN << >> ELSE PackQuestion(Head(s)) \o PackQuestions(Tail(s))

RECURSIVE PackRRs(_)
PackRRs(s) ==
    IF s = << >> THEN << >> ELSE PackRR(Head(s)) \o PackRRs(Tail(s))

MsgOk(m) ==
    /\ \A i \in 1..Len(m.Question) : NameOk(m.Question[i].Name)
    /\ \A i \in 1..Len(m.Answer) : NameOk(m.Answer[i].Name)
    /\ \A i \in 1..Len(m.Ns) : NameOk(m.Ns[i].Name)
    /\ \A i \in 1..Len(m.Extra) : NameOk(m.Extra[i].Name)

PackBytes(m) ==
    PackUint16(m.Id) \o PackUint16(m.Bits)
        \o PackUint16(Len(m.Question)) \o PackUint16(Len(m.Answer))
        \o PackUint16(Len(m.Ns)) \o PackUint16(Len(m.Extra))
        \o PackQuestions(m.Question) \o PackRRs(m.Answer)
        \o PackRRs(m.Ns) \o PackRRs(m.Extra)

\* query.Pack(): the bytes, or an error and no bytes.
Pack(m) ==
    IF MsgOk(m) THEN [err |-> "nil", bytes |-> PackBytes(m)]
    ELSE [err |-> "pack", bytes |-> << >>]

\* UnpackDomainName: labels up to the root label, following compression
\* pointers (at most ten of them here).  off1 is the offset after the name
\* where it was first read; 0 while no pointer has been followed.  budget is
\* what is left of the 255 octets a name may take on the wire.
RECURSIVE UnpackNameFrom(_, _, _, _, _, _)
UnpackNameFrom(msg, off, ptr, off1, budget, labels) ==
    IF off >= Len(msg) THEN [ok |-> FALSE, val |-> << >>, off |-> Len(msg)]
    ELSE LET c == msg[off + 1] IN
         IF c = 0
         THEN [ok |-> TRUE, val |-> labels, off |-> IF ptr = 0 THEN off + 1 ELSE off1]
         ELSE IF c < 64
         THEN IF off + 1 + c > Len(msg) \/ budget - (c + 1) <= 0
              THEN [ok |-> FALSE, val |-> << >>, off |-> Len(msg)]
              ELSE UnpackNameFrom(msg, off + 1 + c, ptr, off1, budget - (c + 1),
                                  Append(labels, SubSeq(msg, off + 2, off + 1 + c)))
         ELSE IF c >= 192
         THEN IF off + 1 >= Len(msg) \/ ptr >= 10
              THEN [ok |-> FALSE, val |-> << >>, off |-> Len(msg)]
              ELSE UnpackNameFrom(msg, (c - 192) * 256 + msg[off + 2], ptr + 1,
                                  IF ptr = 0 THEN off + 2 ELSE off1, budget, labels)
         ELSE [ok |-> FALSE, val |-> << >>, off |-> Len(msg)]

UnpackDomainName(msg, off) == UnpackNameFrom(msg, off, 0, 0, 255, << >>)

\* unpackQuestion after its name n was read: the type and the class follow.
\* A question cut short by the end of the buffer is returned as far as it
\* was read, without an error; a field cut in two is an error.
QuestionAfterName(msg, n) ==
    IF ~n.ok THEN [ok |-> FALSE, val |-> << >>, off |-> n.off]
    ELSE IF n.off = Len(msg)
    THEN [ok |-> TRUE, val |-> [Name |-> n.val, Qtype |-> 0, Qclass |-> 0], off |-> n.off]
    ELSE IF n.off + 2 > Len(msg) THEN [ok |-> FALSE, val |-> << >>, off |-> Len(msg)]
    ELSE IF n.off + 2 = Len(msg)
    THEN [ok |-> TRUE,
          val |-> [Name |-> n.val, Qtype |-> U16At(msg, n.off), Qclass |-> 0],
          off |-> n.off + 2]
    ELSE IF n.off + 4 > Len(msg) THEN [ok |-> FALSE, val |-> << >>, off |-> Len(msg)]
    ELSE [ok |-> TRUE,
          val |-> [Name |-> n.val, Qtype |-> U16At(msg, n.off),
                   Qclass |-> U16At(msg, n.off + 2)],
          off |-> n.off + 4]

UnpackQuestion(msg, off) ==
    Only({ QuestionAfterName(msg, n) : n \in {UnpackDomainName(msg, off)} })

\* UnpackRR after its name n was read: type, class, TTL and RDLENGTH (ten
\* bytes), then RDLENGTH bytes of RDATA.  Whatever is cut short is an error.
RRAfterName(msg, n) ==
    IF ~n.ok \/ n.off + 10 > Len(msg) \/ n.off + 10 + U16At(msg, n.off + 8) > Len(msg)
    THEN [ok |-> FALSE, val |-> << >>, off |-> Len(msg)]
    ELSE [ok |-> TRUE,
          val |-> [Name |-> n.val, Rrtype |-> U16At(msg, n.off),
                   Class |-> U16At(msg, n.off + 2), Ttl |-> U32At(msg, n.off + 4),
                   Rdata |-> SubSeq(msg, n.off + 11, n.off + 10 + U16At(msg, n.off + 8))],
          off |-> n.off + 10 + U16At(msg, n.off + 8)]

UnpackRR(msg, off) ==
    Only({ RRAfterName(msg, n) : n \in {UnpackDomainName(msg, off)} })

\* The question loop of (*Msg).unpack, as a loop state [ok, val, off, left,
\* stop]: the count of the header is not trusted, the loop stops when the
\* offset no longer grows, and an error ends it.  A round on a stopped or
\* exhausted loop changes nothing.
QuestionRound(st, q) ==
    IF ~q.ok THEN [st EXCEPT !.ok = FALSE, !.off = q.off, !.stop = TRUE]
    ELSE IF q.off = st.off THEN [st EXCEPT !.stop = TRUE]
    ELSE [st EXCEPT !.val = Append(@, q.val), !.off = q.off, !.left = @ - 1]

QuestionStep(msg, st) ==
    IF st.left = 0 \/ st.stop THEN st
    ELSE Only({ QuestionRound(st, q) : q \in {UnpackQuestion(msg, st.off)} })

\* Four rounds, sixteen rounds, and the loop, sixty-four rounds at a time.
QuestionStep4(msg, st) ==
    Only({ QuestionStep(msg, s3) :
           s3 \in { QuestionStep(msg, s2) :
           s2 \in { QuestionStep(msg, s1) :
           s1 \in { QuestionStep(msg, st) } } } })

QuestionStep16(msg, st) ==
    Only({ QuestionStep4(msg, s3) :
           s3 \in { QuestionStep4(msg, s2) :
           s2 \in { QuestionStep4(msg, s1) :
           s1 \in { QuestionStep4(msg, st) } } } })

RECURSIVE QuestionLoop(_, _)
QuestionLoop(msg, st) ==
    IF st.left = 0 \/ st.stop THEN st
    ELSE Only({ QuestionLoop(msg, s4) :
                s4 \in { QuestionStep16(msg, s3) :
                s3 \in { QuestionStep16(msg, s2) :
                s2 \in { QuestionStep16(msg, s1) :
                s1 \in { QuestionStep16(msg, st) } } } } })

UnpackQuestions(n, msg, off) ==
    QuestionLoop(msg, [ok |-> TRUE, val |-> << >>, off |-> off, left |-> n,
                       stop |-> FALSE])

\* unpackRRslice: stops without an error at the end of the buffer; on an error
\* the records read so far are dropped.
RRRound(msg, st, r) ==
    IF ~r.ok
    THEN [st EXCEPT !.ok = FALSE, !.val = << >>, !.off = Len(msg), !.stop = TRUE]
    ELSE [st EXCEPT !.val = Append(@, r.val), !.off = r.off, !.left = @ - 1]

RRStep(msg, st) ==
    IF st.left = 0 \/ st.stop THEN st
    ELSE IF st.off = Len(msg) THEN [st EXCEPT !.stop = TRUE]
    ELSE Only({ RRRound(msg, st, r) : r \in {UnpackRR(msg, st.off)} })

RRStep4(msg, st) ==
    Only({ RRStep(msg, s3) :
           s3 \in { RRStep(msg, s2) :
           s2 \in { RRStep(msg, s1) :
           s1 \in { RRStep(msg, st) } } } })

RRStep16(msg, st) ==
    Only({ RRStep4(msg, s3) :
           s3 \in { RRStep4(msg, s2) :
           s2 \in { RRStep4(msg, s1) :
           s1 \in { RRStep4(msg, st) } } } })

RECURSIVE RRLoop(_, _)
RRLoop(msg, st) ==
    IF st.left = 0 \/ st.stop THEN st
    ELSE Only({ RRLoop(msg, s4) :
                s4 \in { RRStep16(msg, s3) :
                s3 \in { RRStep16(msg, s2) :
                s2 \in { RRStep16(msg, s1) :
                s1 \in { RRStep16(msg, st) } } } } })

UnpackRRslice(n, msg, off) ==
    RRLoop(msg, [ok |-> TRUE, val |-> << >>, off |-> off, left |-> n, stop |-> FALSE])

NoMsg == [Id |-> 0, Bits |-> 0, Question |-> << >>, Answer |-> << >>,
          Ns |-> << >>, Extra |-> << >>]

UnpackFailed == [err |-> "unpack", msg |-> NoMsg]

\* The four sections of (*Msg).unpack, one after the other: each starts where
\* the one before it ended, and the first error ends the parse.
UnpackExtra(msg, m, e) ==
    IF ~e.ok THEN UnpackFailed ELSE [err |-> "nil", msg |-> [m EXCEPT !.Extra = e.val]]

UnpackNs(msg, m, n) ==
    IF ~n.ok THEN UnpackFailed
    ELSE Only({ UnpackExtra(msg, [m EXCEPT !.Ns = n.val], e) :
                e \in {UnpackRRslice(U16At(msg, 10), msg, n.off)} })

UnpackAnswer(msg, m, a) ==
    IF ~a.ok THEN UnpackFailed
    ELSE Only({ UnpackNs(msg, [m EXCEPT !.Answer = a.val], n) :
                n \in {UnpackRRslice(U16At(msg, 8), msg, a.off)} })

UnpackSections(msg, m, q) ==
    IF ~q.ok THEN UnpackFailed
    ELSE Only({ UnpackAnswer(msg, [m EXCEPT !.Question = q.val], a) :
                a \in {UnpackRRslice(U16At(msg, 6), msg, q.off)} })

\* The 12-octet header: ID, flag bits and the four counts.
UnpackMsgHdr(msg) == [NoMsg EXCEPT !.Id = U16At(msg, 0), !.Bits = U16At(msg, 2)]

\* resp.Unpack(buffer): [err, msg].  A message that ends with its header is
\* the header alone; bytes after the last record are ignored.
Unpack(msg) ==
    IF Len(msg) < 12 THEN UnpackFailed
    ELSE IF Len(msg) = 12 THEN [err |-> "nil", msg |-> UnpackMsgHdr(msg)]
    ELSE Only({ UnpackSections(msg, UnpackMsgHdr(msg), q) :
                q \in {UnpackQuestions(U16At(msg, 4), msg, 12)} })

(***************************************************************************)
(* Inputs of a call and behaviours of the network.                         *)
(***************************************************************************)
\* ServerAddr.Address: "8.8.8.8:853", "dns.example:853", "" and "8.8.8.8".
\* net.ResolveUDPAddr accepts the empty address, net.SplitHostPort does not.
AddrKinds == {"literal", "hostname", "empty", "noport"}

QueryName == << << 97 >> >>
LongLabel == [i \in 1..64 |-> 97]

\* The caller's query: one question, with the caller's ID.
Query(id, name) ==
    [Id |-> id, Bits |-> 256,
     Question |-> << [Name |-> name, Qtype |-> 1, Qclass |-> 1] >>,
     Answer |-> << >>, Ns |-> << >>, Extra |-> << >>]

\* The last one cannot be serialized (a label of 64 bytes).
Queries == {Query(0, QueryName), Query(CallerId, QueryName),
            Query(CallerId, << LongLabel >>)}

\* RDATA lengths of the server's answer: a small answer, and answers whose
\* encoded message is BufCap - 2, BufCap and BufCap + 1 bytes long.
RdLens == {4, BufCap - 34, BufCap - 32, BufCap - 31}

\* What a conformant server answers to the query bytes it received: the same
\* ID and question, QR RD RA set, one answer record.
Reply(q, rdlen) ==
    [Id |-> q.Id, Bits |-> 33152, Question |-> q.Question,
     Answer |-> << [Name |-> q.Question[1].Name, Rrtype |-> 1, Class |-> 1,
                    Ttl |-> 60, Rdata |-> [i \in 1..rdlen |-> 7]] >>,
     Ns |-> << >>, Extra |-> << >>]

Deadlines == {NoDeadline} \cup (0..MaxDeadline)

VARIABLES
    pc,           \* where each call is
    addr,         \* addr.Address of each call
    query,        \* the caller's *dns.Msg of each call (mutated in place)
    entryQuery,   \* the caller's message as it was when the call was made
    ctxDeadline,  \* ctx.Deadline() of each call, or NoDeadline
    ctxCanceled,  \* the caller has canceled the call's context
    cancelable,   \* the context has a cancel function (it is not context.Background())
    server,       \* the answers the call's server may give: (RDATA length, framed)
    reachable,    \* the call's UDP target answers
    now,          \* the clock
    udpConn,      \* sendQueryQUIC's udpConn (a socket), or Nil
    quicConn,     \* sendQueryQUIC's quicConn (a connection), or Nil
    stream,       \* the stream handed from sendQueryQUIC to recvResponseQUIC
    rawQuery,     \* sendQueryQUIC's rawQuery
    buffer,       \* recvResponseQUIC's buffer
    ret,          \* what queryQUIC returned: [resp, err]
    sockets,      \* every UDP socket ever opened
    conns,        \* every QUIC connection ever established
    streams,      \* every stream ever opened
    logged,       \* what maybeLogQuery was called with, per call
    io,           \* per call: the results the code discards, and what the
                  \* server put on the stream
    steps,        \* per call: the steps executed so far, in order
    endTime       \* per call: the clock when queryQUIC returned

vars == << pc, addr, query, entryQuery, ctxDeadline, ctxCanceled, cancelable, server, reachable, now, udpConn,
           quicConn, stream, rawQuery, buffer, ret, sockets, conns, streams,
           logged, io, steps, endTime >>

\* The nil *dns.Msg.
NoResp == [nil |-> TRUE]
NoIo == [writeErr |-> "nil", closeErr |-> "nil", readErr |-> "nil", nread |-> 0,
         avail |-> 0, wire |-> << >>, payload |-> << >>, sent |-> NoResp,
         canceledIn |-> "never"]

Terminal == {"done", "failed"}
Started == {c \in Calls : pc[c] # "unused"}

\* ctx.Err()
CtxErr(c) ==
    IF ctxCanceled[c] THEN "context canceled"
    ELSE IF ctxDeadline[c] # NoDeadline /\ now >= ctxDeadline[c]
         THEN "context deadline exceeded"
         ELSE "nil"

(***************************************************************************)
(* Initial states: one call with any inputs, or two concurrent calls on    *)
(* the same Transport with distinct query messages, context.Background()   *)
(* and one server each (one framing its answer, one not).                  *)
(***************************************************************************)
InitCommon ==
    /\ now = 0
    /\ udpConn = [c \in Calls |-> Nil]
    /\ quicConn = [c \in Calls |-> Nil]
    /\ stream = [c \in Calls |-> Nil]
    /\ rawQuery = [c \in Calls |-> << >>]
    /\ buffer = [c \in Calls |-> << >>]
    /\ ret = [c \in Calls |-> [resp |-> NoResp, err |-> "nil"]]
    /\ sockets = << >>
    /\ conns = << >>
    /\ streams = << >>
    /\ logged = [c \in Calls |-> << >>]
    /\ io = [c \in Calls |-> NoIo]
    /\ steps = [c \in Calls |-> << >>]
    /\ endTime = [c \in Calls |-> NoDeadline]
    /\ entryQuery = query

InitOne ==
    /\ pc = [c \in Calls |-> IF c = 1 THEN "entry" ELSE "unused"]
    /\ \E a \in AddrKinds : addr = [c \in Calls |-> a]
    /\ \E q \in Queries : query = [c \in Calls |-> q]
    /\ \E d \in Deadlines : ctxDeadline = [c \in Calls |-> d]
    /\ ctxCanceled = [c \in Calls |-> FALSE]
    /\ cancelable = [c \in Calls |-> TRUE]
    /\ server = [c \in Calls |-> RdLens \X BOOLEAN]
    /\ \E r \in BOOLEAN : reachable = [c \in Calls |-> r]

InitTwo ==
    /\ pc = [c \in Calls |-> "entry"]
    /\ addr \in [Calls -> {"literal"}]
    /\ query = [c \in Calls |-> Query(IF c = 1 THEN 0 ELSE CallerId, QueryName)]
    /\ ctxDeadline = [c \in Calls |-> NoDeadline]
    /\ ctxCanceled = [c \in Calls |-> FALSE]
    /\ cancelable = [c \in Calls |-> FALSE]
    /\ server = [c \in Calls |-> {<< 4, c = 1 >>}]
    /\ reachable \in [Calls -> BOOLEAN]

Init == (InitOne \/ InitTwo) /\ InitCommon

(***************************************************************************)
(* queryQUIC and sendQueryQUIC, statement by statement.                    *)
(***************************************************************************)
Did(c, step) == steps' = [steps EXCEPT ![c] = Append(@, step)]

\* A failed dial is tried again (a few times) instead of being returned.
ReturnErrRetryDial(c, e) ==
    IF e = "dial" /\ Len(steps[c]) < 10
    THEN /\ pc' = [pc EXCEPT ![c] = "dial"]
         /\ UNCHANGED << ret, endTime >>
    ELSE /\ pc' = [pc EXCEPT ![c] = "failed"]
         /\ ret' = [ret EXCEPT ![c] = [resp |-> NoResp, err |-> e]]
         /\ endTime' = [endTime EXCEPT ![c] = now]

\* return nil, err from queryQUIC.
ReturnErr(c, e) ==
    /\ pc' = [pc EXCEPT ![c] = "failed"]
    /\ ret' = [ret EXCEPT ![c] = [resp |-> NoResp, err |-> e]]
    /\ endTime' = [endTime EXCEPT ![c] = now]

\* stream.Close() left out: after the write the call goes on to read.
GotoWithoutClose(c, loc) ==
    /\ pc' = [pc EXCEPT ![c] = IF loc = "close" THEN "read" ELSE loc]
    /\ UNCHANGED << ret, endTime >>

\* Control passes to the next statement.
Goto(c, loc) ==
    /\ pc' = [pc EXCEPT ![c] = loc]
    /\ UNCHANGED << ret, endTime >>

\* A fast-fail that looks at cancellation only, not at the deadline.
FastFailOnCancelOnly(c) == ctxCanceled[c]

\* if ctx.Err() != nil { return nil, ctx.Err() }
FastFail(c) == CtxErr(c) # "nil"

Enter(c) ==
    /\ pc[c] = "entry"
    /\ IF FastFail(c) THEN ReturnErr(c, CtxErr(c)) ELSE Goto(c, "resolve")
    /\ Did(c, "enter")
    /\ UNCHANGED << addr, query, entryQuery, ctxDeadline, ctxCanceled, cancelable, server, reachable, now, udpConn,
                    quicConn, stream, rawQuery, buffer, sockets, conns, streams,
                    logged, io >>

\* net.ResolveUDPAddr("udp", addr.Address): takes no context.  A host name
\* is looked up, which may fail; an address without a port is refused.
ResolveErrs(a) ==
    CASE a = "literal" -> {"nil"}
      [] a = "hostname" -> {"nil", "resolve"}
      [] a = "empty" -> {"nil"}
      [] a = "noport" -> {"resolve"}

Resolve(c) ==
    /\ pc[c] = "resolve"
    /\ \E e \in ResolveErrs(addr[c]) :
          IF e # "nil" THEN ReturnErr(c, e) ELSE Goto(c, "listen")
    /\ Did(c, "resolve")
    /\ UNCHANGED << addr, query, entryQuery, ctxDeadline, ctxCanceled, cancelable, server, reachable, now, udpConn,
                    quicConn, stream, rawQuery, buffer, sockets, conns, streams,
                    logged, io >>

\* net.ListenUDP: a new socket, which quic.Transport{Conn: udpConn} wraps.
NewSocket(c) == [owner |-> c, open |-> TRUE, deadline |-> NoDeadline, users |-> {c}]

\* A socket kept on the Transport and handed to every call after the first.
ListenUDPShared(c) ==
    IF sockets = << >>
    THEN [table |-> Append(sockets, NewSocket(c)), id |-> Len(sockets) + 1]
    ELSE [table |-> [sockets EXCEPT ![1].users = @ \cup {c}], id |-> 1]

\* The socket table and the socket handed to the call.
ListenUDP(c) ==
    [table |-> Append(sockets, NewSocket(c)), id |-> Len(sockets) + 1]

Listen(c) ==
    /\ pc[c] = "listen"
    /\ \/ /\ sockets' = ListenUDP(c).table
          /\ udpConn' = [udpConn EXCEPT ![c] = ListenUDP(c).id]
          /\ Goto(c, "split")
       \/ /\ ReturnErr(c, "listen")
          /\ UNCHANGED << sockets, udpConn >>
    /\ Did(c, "listen")
    /\ UNCHANGED << addr, query, entryQuery, ctxDeadline, ctxCanceled, cancelable, server, reachable, now,
                    quicConn, stream, rawQuery, buffer, conns, streams, logged, io >>

\* hostname, _, err := net.SplitHostPort(addr.Address)
SplitErr(a) == IF a \in {"empty", "noport"} THEN "split" ELSE "nil"

Split(c) ==
    /\ pc[c] = "split"
    /\ IF SplitErr(addr[c]) # "nil" THEN ReturnErr(c, SplitErr(addr[c]))
       ELSE Goto(c, "setdeadline")
    /\ Did(c, "split")
    /\ UNCHANGED << addr, query, entryQuery, ctxDeadline, ctxCanceled, cancelable, server, reachable, now, udpConn,
                    quicConn, stream, rawQuery, buffer, sockets, conns, streams,
                    logged, io >>

\* The context's deadline never handed to the socket.
SocketDeadlineForgotten(c, old) == old

\* if deadline, ok := ctx.Deadline(); ok { _ = udpConn.SetDeadline(deadline) }
SocketDeadline(c, old) == IF ctxDeadline[c] # NoDeadline THEN ctxDeadline[c] ELSE old

SetDeadline(c) ==
    /\ pc[c] = "setdeadline"
    /\ sockets' = [sockets EXCEPT ![udpConn[c]] =
                      [@ EXCEPT !.deadline = SocketDeadline(c, @),
                                !.users = @ \cup {c}]]
    /\ Goto(c, "pack")
    /\ Did(c, "setdeadline")
    /\ UNCHANGED << addr, query, entryQuery, ctxDeadline, ctxCanceled, cancelable, server, reachable, now, udpConn,
                    quicConn, stream, rawQuery, buffer, conns, streams, logged, io >>

\* The assignment left out: the caller's ID goes on the wire.
NormalizeIdKept(q) == q

\* The header reset along with the ID: the caller's flags are lost.
NormalizeIdAndFlags(q) == [q EXCEPT !.Id = 0, !.Bits = 0]

\* query.Id = 0
NormalizeId(q) == [q EXCEPT !.Id = 0]

\* query.Id = 0; rawQuery, err = query.Pack()
PackQuery(c) ==
    /\ pc[c] = "pack"
    /\ query' = [query EXCEPT ![c] = NormalizeId(@)]
    /\ \E p \in {Pack(NormalizeId(query[c]))} :
          /\ rawQuery' = [rawQuery EXCEPT ![c] = p.bytes]
          /\ IF p.err # "nil" THEN ReturnErr(c, p.err) ELSE Goto(c, "log")
    /\ Did(c, "pack")
    /\ UNCHANGED << addr, entryQuery, ctxDeadline, ctxCanceled, cancelable, server, reachable, now, udpConn,
                    quicConn, stream, buffer, sockets, conns, streams, logged, io >>

\* The logging hook: its body is not in doquic.go.  It is an observer, it
\* records the bytes it is given and leaves them, and the control flow, alone.
maybeLogQuery(log, raw) == Append(log, raw)

\* The call of the hook left out: the dial follows the serialization.
LogQueryOmitted(c) ==
    /\ pc[c] = "log"
    /\ pc' = [pc EXCEPT ![c] = "dial"]
    /\ UNCHANGED << addr, query, entryQuery, ctxDeadline, ctxCanceled, cancelable,
                    server, reachable, now, udpConn, quicConn, stream, rawQuery,
                    buffer, ret, sockets, conns, streams, logged, io, steps,
                    endTime >>

\* t0 = t.maybeLogQuery(ctx, addr, rawQuery)
LogQuery(c) ==
    /\ pc[c] = "log"
    /\ logged' = [logged EXCEPT ![c] = maybeLogQuery(@, rawQuery[c])]
    /\ Goto(c, "dial")
    /\ Did(c, "log")
    /\ UNCHANGED << addr, query, entryQuery, ctxDeadline, ctxCanceled, cancelable, server, reachable, now, udpConn,
                    quicConn, stream, rawQuery, buffer, sockets, conns, streams, io >>

\* quicConn, err := tr.Dial(ctx, udpAddr, tlsConfig, quicConfig): the handshake
\* is abandoned with the context's error once the context is done; while the
\* context is live the handshake ends well only if the target answers, and may
\* fail on its own (TLS failure, handshake timeout).
DialErrs(c) ==
    IF CtxErr(c) # "nil" THEN {CtxErr(c)}
    ELSE IF reachable[c] THEN {"nil", "dial"}
    ELSE {"dial"}

NewConn(c) == [owner |-> c, sock |-> udpConn[c], open |-> TRUE, users |-> {c}]

Dial(c) ==
    /\ pc[c] = "dial"
    /\ sockets' = [sockets EXCEPT ![udpConn[c]] = [@ EXCEPT !.users = @ \cup {c}]]
    /\ \E e \in DialErrs(c) :
          IF e # "nil"
          THEN /\ ReturnErr(c, e)
               /\ UNCHANGED << conns, quicConn >>
          ELSE /\ conns' = Append(conns, NewConn(c))
               /\ quicConn' = [quicConn EXCEPT ![c] = Len(conns) + 1]
               /\ Goto(c, "openstream")
    /\ Did(c, "dial")
    /\ UNCHANGED << addr, query, entryQuery, ctxDeadline, ctxCanceled, cancelable, server, reachable, now, udpConn,
                    stream, rawQuery, buffer, streams, logged, io >>

\* stream, err = quicConn.OpenStream()
NewStream(c) ==
    [owner |-> c, conn |-> quicConn[c], written |-> << >>, writes |-> 0,
     closes |-> 0, fin |-> FALSE, users |-> {c}]

OpenStream(c) ==
    /\ pc[c] = "openstream"
    /\ conns' = [conns EXCEPT ![quicConn[c]] = [@ EXCEPT !.users = @ \cup {c}]]
    /\ \/ /\ streams' = Append(streams, NewStream(c))
          /\ stream' = [stream EXCEPT ![c] = Len(streams) + 1]
          /\ Goto(c, "write")
       \/ /\ ReturnErr(c, "openstream")
          /\ UNCHANGED << streams, stream >>
    /\ Did(c, "openstream")
    /\ UNCHANGED << addr, query, entryQuery, ctxDeadline, ctxCanceled, cancelable, server, reachable, now, udpConn,
                    quicConn, rawQuery, buffer, sockets, logged, io >>

\* How many bytes a Write of b may have accepted when it returns: all of them,
\* or fewer together with an error.
WriteLens(b) == {0, 1, Len(b)}

\* What the caller of sendQueryQUIC sees of the results of stream.Write and
\* stream.Close: both are discarded.
SendErr(writeErr, closeErr) == "nil"

\* The query sent the way DNS over TCP frames it, behind a 2-octet length.
WriteBytesFramed(raw, k) == PackUint16(Len(raw)) \o Take(raw, k)

\* The bytes a Write of raw puts on the stream when it accepts k of them.
WriteBytes(raw, k) == Take(raw, k)

\* stream.Write(rawQuery)
Write(c) ==
    /\ pc[c] = "write"
    /\ \E k \in WriteLens(rawQuery[c]) :
          /\ streams' = [streams EXCEPT ![stream[c]] =
                            [@ EXCEPT !.written = @ \o WriteBytes(rawQuery[c], k),
                                      !.writes = @ + 1,
                                      !.users = @ \cup {c}]]
          /\ io' = [io EXCEPT ![c].writeErr =
                            IF k = Len(rawQuery[c]) THEN "nil" ELSE "write"]
    /\ Goto(c, "close")
    /\ Did(c, "write")
    /\ UNCHANGED << addr, query, entryQuery, ctxDeadline, ctxCanceled, cancelable, server, reachable, now, udpConn,
                    quicConn, stream, rawQuery, buffer, sockets, conns, logged >>

\* _ = stream.Close(); return: the write side is closed (FIN), or the close
\* fails.  sendQueryQUIC then returns to queryQUIC.
CloseStream(c) ==
    /\ pc[c] = "close"
    /\ \E e \in {"nil", "close"} :
          /\ streams' = [streams EXCEPT ![stream[c]] =
                            [@ EXCEPT !.fin = (e = "nil"),
                                      !.closes = @ + 1,
                                      !.users = @ \cup {c}]]
          /\ io' = [io EXCEPT ![c].closeErr = e]
          /\ IF SendErr(io[c].writeErr, e) # "nil"
             THEN ReturnErr(c, SendErr(io[c].writeErr, e))
             ELSE Goto(c, "read")
    /\ Did(c, "close")
    /\ UNCHANGED << addr, query, entryQuery, ctxDeadline, ctxCanceled, cancelable, server, reachable, now, udpConn,
                    quicConn, stream, rawQuery, buffer, sockets, conns, logged >>

(***************************************************************************)
(* The server and recvResponseQUIC.                                        *)
(***************************************************************************)
\* The server answers a query it received whole (all bytes and the FIN); it
\* encodes the answer and sends it behind a 2-octet length (RFC 9250), or
\* bare as the early drafts of the protocol had it.
ServerAnswer(m, framed) ==
    Only({ [sent |-> m, payload |-> b,
            wire |-> (IF framed THEN PackUint16(Len(b)) ELSE << >>) \o b] :
           b \in {PackBytes(m)} })

ServerSends(st, raw, kinds) ==
    IF st.written = raw /\ st.fin
    THEN { ServerAnswer(Reply(q, k[1]), k[2]) : q \in {Unpack(raw).msg}, k \in kinds }
    ELSE { [sent |-> NoResp, payload |-> << >>, wire |-> << >>] }

\* How much of the server's bytes arrives before the stream ends: nothing,
\* a part, or all.
DeliveredLens(w) == {0, Len(w) \div 2, Len(w)}

\* buffer := make([]byte, 1024); io.ReadFull(stream, buffer)
\* The buffer after n bytes of w were copied into it.
ReadFull(w, n) == Take(w, n) \o Zeros(BufCap - Min(n, Len(w)))

\* The error io.ReadFull returns (and the code discards).
ReadErr(w, k) ==
    IF k >= BufCap THEN "nil"
    ELSE IF k < Len(w) THEN "read"
    ELSE IF k = 0 THEN "EOF" ELSE "unexpected EOF"

Read(c) ==
    /\ pc[c] = "read"
    /\ \E s \in ServerSends(streams[stream[c]], rawQuery[c], server[c]) :
       \E k \in DeliveredLens(s.wire) :
          /\ buffer' = [buffer EXCEPT ![c] = ReadFull(s.wire, Min(k, BufCap))]
          /\ io' = [io EXCEPT ![c].readErr = ReadErr(s.wire, k),
                              ![c].nread = Min(k, BufCap),
                              ![c].avail = k,
                              ![c].wire = s.wire,
                              ![c].payload = s.payload,
                              ![c].sent = s.sent]
    /\ streams' = [streams EXCEPT ![stream[c]] = [@ EXCEPT !.users = @ \cup {c}]]
    /\ Goto(c, "unpack")
    /\ Did(c, "read")
    /\ UNCHANGED << addr, query, entryQuery, ctxDeadline, ctxCanceled, cancelable, server, reachable, now, udpConn,
                    quicConn, stream, rawQuery, sockets, conns, logged >>

\* One buffer kept on the Transport: every call parses the first call's.
ParserInputShared(c) == buffer[1]

\* The bytes recvResponseQUIC hands to resp.Unpack.
ParserInput(c) == buffer[c]

\* resp := &dns.Msg{}; if err := resp.Unpack(buffer); err != nil { return nil, err }
\* return resp, nil
\* return resp, err: the half-parsed message handed back next to the error.
ParseResultWithResp(u) == [resp |-> u.msg, err |-> u.err]

\* What recvResponseQUIC returns for the outcome u of resp.Unpack.
ParseResult(u) ==
    IF u.err # "nil" THEN [resp |-> NoResp, err |-> u.err]
    ELSE [resp |-> u.msg, err |-> "nil"]

Parse(c) ==
    /\ pc[c] = "unpack"
    /\ \E u \in {Unpack(ParserInput(c))} : \E r \in {ParseResult(u)} :
          /\ pc' = [pc EXCEPT ![c] = IF r.err # "nil" THEN "failed" ELSE "done"]
          /\ ret' = [ret EXCEPT ![c] = r]
          /\ endTime' = [endTime EXCEPT ![c] = now]
    /\ Did(c, "unpack")
    /\ UNCHANGED << addr, query, entryQuery, ctxDeadline, ctxCanceled, cancelable, server, reachable, now, udpConn,
                    quicConn, stream, rawQuery, buffer, sockets, conns, streams,
                    logged, io >>

(***************************************************************************)
(* The caller and the clock.                                               *)
(***************************************************************************)
\* The caller cancels the context of a call that has not returned.
Cancel(c) ==
    /\ pc[c] \notin Terminal \cup {"unused"}
    /\ cancelable[c]
    /\ ~ctxCanceled[c]
    /\ ctxCanceled' = [ctxCanceled EXCEPT ![c] = TRUE]
    /\ io' = [io EXCEPT ![c].canceledIn = pc[c]]
    /\ UNCHANGED << pc, addr, query, entryQuery, ctxDeadline, cancelable, server, reachable, now, udpConn, quicConn,
                    stream, rawQuery, buffer, ret, sockets, conns, streams, logged,
                    steps, endTime >>

\* The library calls in which a call may stay while time passes: the lookup of
\* a host name, the handshake while the context is live, the stream write and
\* the stream read.  Only tr.Dial is given the context.  Every other
\* statement takes no time.  The clock is read through deadlines only, so it
\* stands still when no running call has one.
Blocked(c) ==
    \/ pc[c] = "resolve" /\ addr[c] = "hostname"
    \/ pc[c] = "dial" /\ CtxErr(c) = "nil"
    \/ pc[c] = "write"
    \/ pc[c] = "read"

Tick ==
    /\ now <= MaxDeadline
    /\ \E c \in Calls : pc[c] \notin Terminal \cup {"unused"} /\ ctxDeadline[c] # NoDeadline
    /\ \A c \in Calls : pc[c] \in Terminal \cup {"unused"} \/ Blocked(c)
    /\ now' = now + 1
    /\ UNCHANGED << pc, addr, query, entryQuery, ctxDeadline, ctxCanceled, cancelable, server,
                    reachable, udpConn,
                    quicConn, stream, rawQuery, buffer, ret, sockets, conns, streams,
                    logged, io, steps, endTime >>

Next ==
    \/ \E c \in Calls : Enter(c)
    \/ \E c \in Calls : Resolve(c)
    \/ \E c \in Calls : Listen(c)
    \/ \E c \in Calls : Split(c)
    \/ \E c \in Calls : SetDeadline(c)
    \/ \E c \in Calls : PackQuery(c)
    \/ \E c \in Calls : LogQuery(c)
    \/ \E c \in Calls : Dial(c)
    \/ \E c \in Calls : OpenStream(c)
    \/ \E c \in Calls : Write(c)
    \/ \E c \in Calls : CloseStream(c)
    \/ \E c \in Calls : Read(c)
    \/ \E c \in Calls : Parse(c)
    \/ \E c \in Calls : Cancel(c)
    \/ Tick

Spec == Init /\ [][Next]_vars

(***************************************************************************)
(* Properties.                                                             *)
(***************************************************************************)
CtxErrors == {"context canceled", "context deadline exceeded"}

SocketsOf(c) == {i \in 1..Len(sockets) : sockets[i].owner = c}
ConnsOf(c) == {i \in 1..Len(conns) : conns[i].owner = c}
StreamsOf(c) == {i \in 1..Len(streams) : streams[i].owner = c}

\* Call c has touched no socket, connection or stream.
NoNetworkIO(c) ==
    /\ udpConn[c] = Nil /\ quicConn[c] = Nil /\ stream[c] = Nil
    /\ \A i \in 1..Len(sockets) : c \notin sockets[i].users /\ sockets[i].owner # c
    /\ \A i \in 1..Len(conns) : c \notin conns[i].users /\ conns[i].owner # c
    /\ \A i \in 1..Len(streams) : c \notin streams[i].users /\ streams[i].owner # c
    /\ \A k \in 1..Len(steps[c]) : steps[c][k] = "enter"

\* C1: a call whose context is already done at entry returns the context's
\* error with a nil response in its first step, and neither that step nor
\* anything after it creates or touches a socket, a connection or a stream
\* for that call.
C1_FastFailNoIO ==
    [][\A c \in Calls :
          /\ (pc[c] = "entry" /\ CtxErr(c) # "nil" /\ pc'[c] # pc[c])
                => /\ pc'[c] = "failed"
                   /\ ret'[c] = [resp |-> NoResp, err |-> CtxErr(c)]
                   /\ NoNetworkIO(c)'
          /\ (pc[c] = "failed" /\ steps[c] = << "enter" >>) => NoNetworkIO(c)'
      ]_vars

\* A call has fast-failed on an expired deadline.
C1_Witness ==
    \E c \in Calls : /\ pc[c] = "failed" /\ steps[c] = << "enter" >>
                     /\ ret[c].err = "context deadline exceeded"
                     /\ sockets = << >>

\* C2: whatever was written to a call's stream is a prefix of rawQuery, which
\* is the serialization of the caller's message with its ID set to 0; so the
\* two ID octets on the wire are 0 whatever ID the caller handed in.
C2_WireIdZero ==
    \A c \in Calls :
       stream[c] # Nil =>
          /\ streams[stream[c]].written
                = Take(rawQuery[c], Len(streams[stream[c]].written))
          /\ rawQuery[c] = PackBytes([entryQuery[c] EXCEPT !.Id = 0])
          /\ \A k \in 1..Min(2, Len(streams[stream[c]].written)) :
                streams[stream[c]].written[k] = 0

\* A query that came with a nonzero ID is on the stream, whole.
C2_Witness ==
    \E c \in Calls : /\ stream[c] # Nil
                     /\ entryQuery[c].Id = CallerId
                     /\ streams[stream[c]].written = rawQuery[c]
                     /\ Len(rawQuery[c]) > 12

\* The server's answer arrived whole, behind its 2-octet length.
FramedAnswerArrived(c) ==
    /\ io[c].sent # NoResp
    /\ io[c].wire = PackUint16(Len(io[c].payload)) \o io[c].payload
    /\ io[c].avail = Len(io[c].wire)

\* C3: the parser is handed exactly the payload of the answer (not the length
\* prefix, no zero padding, nothing cut off), whatever its length, and decodes
\* the message the server encoded.
C3_ParserGetsPayload ==
    \A c \in Calls :
       (pc[c] = "unpack" /\ FramedAnswerArrived(c)) =>
          /\ ParserInput(c) = io[c].payload
          /\ Unpack(ParserInput(c)) = [err |-> "nil", msg |-> io[c].sent]

\* The context of call c was done before the call returned: canceled while
\* the call was in one of the blocking steps, or expired (the clock moves
\* only while every running call is in a blocking step).
DoneInBlockingStep(c) ==
    \/ io[c].canceledIn \in {"resolve", "dial", "write", "read"}
    \/ /\ ctxDeadline[c] # NoDeadline /\ ctxDeadline[c] > 0
       /\ endTime[c] >= ctxDeadline[c]

\* C4: a call whose context was canceled or expired during a blocking step
\* ends in Failed with the context's error, and never in Done.
C4_CancelAborts ==
    \A c \in Calls :
       (pc[c] \in Terminal /\ DoneInBlockingStep(c)) =>
          /\ pc[c] = "failed"
          /\ ret[c].err \in CtxErrors

\* C5: when the stream read delivers no bytes or is broken off, the call ends
\* in Failed; no response is returned that was parsed from a buffer the read
\* did not fill from the server's bytes.
C5_ReadFailureFails ==
    \A c \in Calls :
       (pc[c] \in Terminal /\ steps[c] # << >> /\ steps[c][Len(steps[c])] = "unpack"
          /\ (io[c].nread = 0 \/ io[c].readErr = "read")) =>
          /\ pc[c] = "failed"
          /\ ret[c].resp = NoResp

\* C6: when stream.Write or stream.Close failed, that error is what the call
\* returns.
C6_WriteErrorReturned ==
    \A c \in Calls :
       (pc[c] \in Terminal /\ (io[c].writeErr # "nil" \/ io[c].closeErr # "nil")) =>
          /\ pc[c] = "failed"
          /\ ret[c].err \in {"write", "close"}

\* C7: when a call has returned, the socket and the connection it opened are
\* closed and its stream is finished.
C7_ResourcesClosed ==
    \A c \in Calls :
       pc[c] \in Terminal =>
          /\ \A i \in SocketsOf(c) : ~sockets[i].open
          /\ \A i \in ConnsOf(c) : ~conns[i].open
          /\ \A i \in StreamsOf(c) : streams[i].fin

\* The result of call c fits where the call is.
Outcome(c) ==
    CASE pc[c] = "done" -> ret[c].resp # NoResp /\ ret[c].err = "nil"
      [] pc[c] = "failed" -> ret[c].resp = NoResp /\ ret[c].err # "nil"
      [] OTHER -> ret[c] = [resp |-> NoResp, err |-> "nil"]

\* C8: a call that has returned has a response and no error (Done) or an
\* error and no response (Failed), a call that has not returned has neither;
\* and after a call has returned nothing of it changes any more.
C8_OneOutcome ==
    [][\A c \in Calls :
          /\ Outcome(c) /\ Outcome(c)'
          /\ pc[c] \in Terminal =>
                /\ pc'[c] = pc[c] /\ ret'[c] = ret[c] /\ steps'[c] = steps[c]
                /\ query'[c] = query[c] /\ buffer'[c] = buffer[c]
                /\ udpConn'[c] = udpConn[c] /\ quicConn'[c] = quicConn[c]
                /\ stream'[c] = stream[c] /\ logged'[c] = logged[c]
                /\ \A i \in 1..Len(streams) : streams[i].owner = c => streams'[i] = streams[i]
      ]_vars

\* A call is Done with the answer its server sent, another outcome being a
\* parse error.
C8_Witness ==
    \E c \in Calls : /\ pc[c] = "done" /\ ret[c].resp = io[c].sent
                     /\ ret[c].resp.Answer # << >>

\* C9 as claimed: every call that has returned opened exactly one socket and
\* exactly one stream.
C9_ExactlyOne ==
    \A c \in Calls :
       pc[c] \in Terminal =>
          Cardinality(SocketsOf(c)) = 1 /\ Cardinality(StreamsOf(c)) = 1

\* C9, amended: a call opens at most one socket, one connection and one
\* stream, exactly one of each once its stream is open, and what it uses is
\* what it opened: no socket, connection or stream has two users.
C9_AtMostOneNoSharing ==
    /\ \A c \in Calls :
          /\ Cardinality(SocketsOf(c)) <= 1
          /\ Cardinality(ConnsOf(c)) <= 1
          /\ Cardinality(StreamsOf(c)) <= 1
          /\ stream[c] # Nil =>
                /\ SocketsOf(c) = {udpConn[c]}
                /\ ConnsOf(c) = {quicConn[c]}
                /\ StreamsOf(c) = {stream[c]}
                /\ streams[stream[c]].conn = quicConn[c]
                /\ conns[quicConn[c]].sock = udpConn[c]
          /\ udpConn[c] # Nil => sockets[udpConn[c]].owner = c
    /\ \A i \in 1..Len(sockets) : sockets[i].users = {sockets[i].owner}
    /\ \A i \in 1..Len(conns) : conns[i].users = {conns[i].owner}
    /\ \A i \in 1..Len(streams) : streams[i].users = {streams[i].owner}

\* Two calls each have their stream open.
C9_Witness ==
    \E c \in Calls : \E d \in Calls \ {c} :
       /\ stream[c] # Nil /\ stream[d] # Nil
       /\ pc[c] = "read" /\ pc[d] = "read"

\* C10: a call with a deadline whose target never answers is in no blocking
\* step after the deadline, and once it has got to the dial it ends in Failed,
\* with the error of the dial, no later than the deadline.
C10_FailsByDeadline ==
    \A c \in Calls :
       (ctxDeadline[c] # NoDeadline /\ ~reachable[c]) =>
          /\ pc[c] \in {"resolve", "dial", "write", "read"} => now <= ctxDeadline[c]
          /\ (pc[c] \in Terminal /\ steps[c][Len(steps[c])] = "dial") =>
                /\ pc[c] = "failed"
                /\ ret[c].err \in {"dial"} \cup CtxErrors
                /\ endTime[c] <= ctxDeadline[c]

\* Everything that belongs to call d: its locals, its result, and the socket,
\* connection and stream it opened.
Owned(d) ==
    << pc[d], query[d], rawQuery[d], buffer[d], udpConn[d], quicConn[d],
       stream[d], ret[d], logged[d], io[d], steps[d], endTime[d],
       [i \in SocketsOf(d) |-> sockets[i]], [i \in ConnsOf(d) |-> conns[i]],
       [i \in StreamsOf(d) |-> streams[i]] >>

\* r is what a call that is about to parse returns when it is the only call:
\* the parse of its own 1024-octet buffer, filled from what the server sent on
\* its own stream in answer to its own query.
AloneOutcome(c, r) ==
    /\ \E s \in ServerSends(streams[stream[c]], rawQuery[c], server[c]) :
          s.wire = io[c].wire /\ s.sent = io[c].sent
    /\ \E b \in {ReadFull(io[c].wire, io[c].nread)} :
          buffer[c] = b /\ r = ParseResult(Unpack(b))

\* C11: with two calls running interleaved, a step of one call leaves
\* everything of the other call as it was; a call uses only the socket, the
\* connection and the stream it opened; and the result a call returns from
\* the parse, and keeps, is the one it has alone: the parse of the bytes its
\* own server sent on its own stream.
C11_CallsIndependent ==
    [][\A c \in Calls :
          /\ (pc'[c] # pc[c] \/ ctxCanceled'[c] # ctxCanceled[c]) =>
                \A d \in Calls \ {c} : Owned(d)' = Owned(d)
          /\ \A i \in 1..Len(sockets') : sockets'[i].users = {sockets'[i].owner}
          /\ \A i \in 1..Len(conns') : conns'[i].users = {conns'[i].owner}
          /\ \A i \in 1..Len(streams') : streams'[i].users = {streams'[i].owner}
          /\ (pc[c] = "unpack" /\ pc'[c] \in Terminal) => AloneOutcome(c, ret'[c])
          /\ pc[c] \in Terminal => Owned(c)' = Owned(c)
      ]_vars

\* Two interleaved calls have both read and parsed an answer; one is Done,
\* the other Failed.
C11_Witness ==
    \E c \in Calls : \E d \in Calls \ {c} :
       /\ pc[c] = "done" /\ pc[d] = "failed"
       /\ steps[c][Len(steps[c])] = "unpack" /\ steps[d][Len(steps[d])] = "unpack"
       /\ io[c].sent # NoResp /\ io[d].sent # NoResp

\* The statements of queryQUIC in program order.
StepOrder ==
    << "enter", "resolve", "listen", "split", "setdeadline", "pack", "log",
       "dial", "openstream", "write", "close", "read", "unpack" >>

LastStep(c) == steps[c][Len(steps[c])]

\* The steps of the sending phase and the errors each of them fails with.
SendSteps ==
    {"resolve", "listen", "split", "pack", "dial", "openstream", "write", "close"}

StepErrs(step) == IF step = "dial" THEN {"dial"} \cup CtxErrors ELSE {step}

\* C13: a call in which a step of the sending phase failed is Failed with
\* the error of that step and has not begun the read; this for the write and
\* the half-close as for the steps before them.
C13_SendFailureSkipsRead ==
    \A c \in Calls :
       /\ (pc[c] = "failed" /\ LastStep(c) \in SendSteps) =>
             /\ ret[c].err \in StepErrs(LastStep(c))
             /\ \A k \in 1..Len(steps[c]) : steps[c][k] # "read"
       /\ (io[c].writeErr # "nil" \/ io[c].closeErr # "nil") =>
             /\ pc[c] \in {"close", "failed"}
             /\ pc[c] = "failed" => ret[c].err \in {"write", "close"}

\* C14: a call that returned the encoding error has done no address lookup,
\* opened no socket, dialed nothing and opened no stream.
C14_PackFailsBeforeIO ==
    \A c \in Calls :
       (pc[c] = "failed" /\ ret[c].err = "pack") =>
          /\ \A k \in 1..Len(steps[c]) :
                steps[c][k] \notin {"resolve", "listen", "dial", "openstream"}
          /\ SocketsOf(c) = {} /\ ConnsOf(c) = {} /\ StreamsOf(c) = {}

\* C15: no step of a call runs twice: no step occurs twice among the steps
\* the call went through, the call opened at most one socket, one connection
\* and one stream, the stream had at most one Write and one Close, and a call
\* that failed stopped at the step that failed.
C15_EachStepOnce ==
    [][\A c \in Calls :
          /\ \A i \in 1..Len(steps'[c]) : \A j \in 1..Len(steps'[c]) :
                i # j => steps'[c][i] # steps'[c][j]
          /\ Cardinality(SocketsOf(c)') <= 1
          /\ Cardinality(ConnsOf(c)') <= 1
          /\ Cardinality(StreamsOf(c)') <= 1
          /\ \A i \in StreamsOf(c)' : streams'[i].writes <= 1 /\ streams'[i].closes <= 1
          /\ pc[c] = "failed" =>
                /\ steps'[c] = steps[c]
                /\ SocketsOf(c)' = SocketsOf(c) /\ ConnsOf(c)' = ConnsOf(c)
                /\ StreamsOf(c)' = StreamsOf(c)
      ]_vars

\* A call failed in the dial, having dialed once on its one socket, and
\* stayed so while something else went on.
C15_Witness ==
    \E c \in Calls :
       /\ pc[c] = "failed" /\ ret[c].err = "dial" /\ LastStep(c) = "dial"
       /\ Cardinality(SocketsOf(c)) = 1 /\ ConnsOf(c) = {}
       /\ \E d \in Calls \ {c} : pc[d] = "done"

\* C16 as claimed: once the write has returned, the stream of a call holds
\* exactly the serialized query, written by one Write, and once the call is
\* past the half-close the write side has been closed, once.
C16_WritesExactlyQuery ==
    \A c \in Calls :
       (stream[c] # Nil /\ pc[c] # "write") =>
          /\ streams[stream[c]].written = rawQuery[c]
          /\ streams[stream[c]].writes = 1
          /\ pc[c] # "close" =>
                streams[stream[c]].closes = 1 /\ streams[stream[c]].fin

\* What holds of the stream st of a call with serialized query raw, whose
\* Write returned writeErr.
StreamUse(st, raw, writeErr) ==
    /\ st.writes <= 1 /\ st.closes <= 1
    /\ st.closes = 1 => st.writes = 1
    /\ st.writes = 0 => st.written = << >>
    /\ st.written = Take(raw, Len(st.written))
    /\ (st.writes = 1 /\ writeErr = "nil") => st.written = raw

\* C16, amended: a call that opened its stream calls Write on it once, with
\* the serialized query and nothing else, so the stream holds an initial part
\* of the serialized query and all of it when the Write reported no error;
\* it then calls Close once; and after the Close nothing is written.
C16_WriteOnceThenClose ==
    [][\A c \in Calls :
          stream'[c] # Nil =>
             /\ StreamUse(streams'[stream'[c]], rawQuery'[c], io'[c].writeErr)
             /\ pc'[c] \in Terminal \cup {"read", "unpack"} =>
                   /\ streams'[stream'[c]].writes = 1
                   /\ streams'[stream'[c]].closes = 1
             /\ (stream[c] # Nil /\ streams[stream[c]].closes = 1) =>
                   /\ stream'[c] = stream[c]
                   /\ streams'[stream[c]].written = streams[stream[c]].written
                   /\ streams'[stream[c]].writes = streams[stream[c]].writes
                   /\ streams'[stream[c]].closes = streams[stream[c]].closes
      ]_vars

\* A call has returned after writing its whole query and closing the write
\* side.
C16_Witness ==
    \E c \in Calls :
       /\ pc[c] \in Terminal /\ stream[c] # Nil
       /\ streams[stream[c]].written = rawQuery[c] /\ Len(rawQuery[c]) > 12
       /\ streams[stream[c]].writes = 1 /\ streams[stream[c]].closes = 1
       /\ streams[stream[c]].fin

HasStep(c, step) == \E k \in 1..Len(steps[c]) : steps[c][k] = step

\* C17: the deadline of a call's socket is the deadline of the call's context
\* from the moment the dial begins until the call has returned and after, and
\* it is never anything else than that or unset; with a context without a
\* deadline it is never set.
C17_SocketDeadlineIsCtxDeadline ==
    \A c \in Calls : \A i \in SocketsOf(c) :
       /\ sockets[i].deadline \in {NoDeadline, ctxDeadline[c]}
       /\ (pc[c] = "dial" \/ HasStep(c, "dial")) => sockets[i].deadline = ctxDeadline[c]
       /\ HasStep(c, "setdeadline") => sockets[i].deadline = ctxDeadline[c]
       /\ ctxDeadline[c] = NoDeadline => sockets[i].deadline = NoDeadline

\* A call with a deadline has dialed and returned; its socket carries the
\* deadline.
C17_Witness ==
    \E c \in Calls : \E i \in SocketsOf(c) :
       /\ ctxDeadline[c] # NoDeadline /\ HasStep(c, "dial") /\ pc[c] \in Terminal
       /\ sockets[i].deadline = ctxDeadline[c]

C19_LoggedOnceBeforeDial ==
    [][\A c \in Calls :
          /\ logged'[c] = IF HasStep(c, "log")' THEN << rawQuery'[c] >> ELSE << >>
          /\ (pc'[c] = "dial" \/ HasStep(c, "dial")') => Len(logged'[c]) = 1
          /\ (HasStep(c, "pack")' /\ ret'[c].err # "pack" /\ pc'[c] # "log")
                => Len(logged'[c]) = 1
          /\ (~HasStep(c, "pack")' \/ ret'[c].err = "pack") => logged'[c] = << >>
          /\ (pc[c] = "log" /\ pc'[c] # pc[c]) => pc'[c] = "dial"
      ]_vars

\* A call logged its query and then failed in the dial: nothing was sent.
C19_Witness ==
    \E c \in Calls :
       /\ pc[c] = "failed" /\ LastStep(c) = "dial"
       /\ logged[c] = << rawQuery[c] >> /\ Len(rawQuery[c]) > 12
       /\ StreamsOf(c) = {}

=============================================================================
